---- MODULE Spec2Model ----
(***************************************************************************)
(* Model of the broker service: the FIX acceptor (broker/fix_server.py),   *)
(* the order store (broker/models.py) and the administrative order         *)
(* actions (broker/app.py).                                                *)
(*                                                                         *)
(* Optional values (Python None / a value) are sequences of length 0 or 1. *)
(* Prices are small integers standing for the Float column.                *)
(***************************************************************************)
EXTENDS Integers, Sequences, FiniteSets, TLC

\* ------------------------------------------------------------- bounds
MaxQty == 2
MaxSeq == 4
MaxExecs == 2

\* ------------------------------------------------------------- inputs
Sockets == {"s1", "s2"}
Workers == {"w1", "w2"}
Peers == {"C1", "C2"}
ClOrdIds == {"O1", "O2"}
Symbols == {"AAPL", "MSFT"}

None == << >>
Some(x) == << x >>
IsNone(v) == Len(v) = 0
Val(v) == v[1]

Min(a, b) == IF a < b THEN a ELSE b

\* An admin fill request body: no quantity, or the quantity asked for.
FillRequests == {None} \cup {Some(q) : q \in (-1)..MaxQty}

VARIABLES
  orders,       \* table orders: sequence of rows, row i has id i
  executions,   \* table executions: sequence of rows in insertion order
  stocks,       \* table stocks: symbol -> None or Some(last_price)
  conn,         \* socket -> "unused" | "accepted" (no message dispatched yet) | "open" | "closed"
  clients,      \* FIXServer.clients: insertion-ordered <<socket, info>> entries
  msg_seq_num,  \* FIXServer.msg_seq_num
  wire,         \* socket -> sequence of the messages written to it
  thr,          \* thread (admin worker or connection reader) -> its position and locals
  ev            \* what the step just taken handled: an admin call with the HTTP status
                \* it returned, or an inbound message with its socket

vars == << orders, executions, stocks, conn, clients, msg_seq_num, wire, thr, ev >>

\* ------------------------------------------------------------- order store
OrderStatus == {"NEW", "PARTIALLY_FILLED", "FILLED", "CANCELED", "REJECTED"}
Terminal == {"FILLED", "CANCELED", "REJECTED"}

OrderIds == 1..Len(orders)

\* session.query(Order).filter_by(id=order_id).first()
FindOrder(tbl, order_id) == IF order_id \in 1..Len(tbl) THEN Some(tbl[order_id]) ELSE None

\* order.executions: the execution rows whose order_id is this order's
ExecIdxOf(ex, order_id) == {i \in 1..Len(ex) : ex[i].order_id = order_id}

RECURSIVE SumQty(_, _)
SumQty(ex, idx) ==
  IF idx = {} THEN 0
  ELSE LET i == CHOOSE j \in idx : TRUE
       IN ex[i].exec_quantity + SumQty(ex, idx \ {i})

ExecQtySum(ex, order_id) == SumQty(ex, ExecIdxOf(ex, order_id))

\* Order(...) as built by the acceptor for an accepted NewOrderSingle
NewOrderRow(cl_ord_id, sender_comp_id, symbol, side, order_type, order_qty, price, tif) ==
  [cl_ord_id |-> cl_ord_id, sender_comp_id |-> sender_comp_id, symbol |-> symbol,
   side |-> side, order_type |-> order_type, quantity |-> order_qty,
   limit_price |-> price, time_in_force |-> tif, status |-> "NEW",
   filled_quantity |-> 0, remaining_quantity |-> order_qty, reject_reason |-> None]

\* mutant: the column without its UNIQUE constraint
ClOrdIdNeverTaken(tbl, cl_ord_id) == FALSE

\* cl_ord_id is UNIQUE: the INSERT fails when a row already has it
ClOrdIdTaken(tbl, cl_ord_id) == \E i \in 1..Len(tbl) : tbl[i].cl_ord_id = cl_ord_id

\* ------------------------------------------------------------- admin fill
HttpOk == [code |-> 200, error |-> ""]
HttpErr(code, text) == [code |-> code, error |-> text]

\* quantity this fill executes
ExecQuantity(order, req) ==
  IF IsNone(req) THEN order.remaining_quantity
  ELSE Min(Val(req), order.remaining_quantity)

\* mutant: a canceled order still passes the status check
ExecutableStatusLoose == {"NEW", "PARTIALLY_FILLED", "CANCELED"}

ExecutableStatus == {"NEW", "PARTIALLY_FILLED"}

\* mutant: the admission checks without the fill-or-kill check
ExecAdmissionAnyQuantity(order, stock, req) ==
  IF order.status \notin ExecutableStatus
    THEN HttpErr(400, "Order cannot be executed")
  ELSE IF IsNone(stock)
    THEN HttpErr(400, "Stock not found in universe")
  ELSE IF order.order_type = "LIMIT" /\ order.side = "BUY"
          /\ Val(order.limit_price) < Val(stock)
    THEN HttpErr(400, "Buy limit price too low")
  ELSE IF order.order_type = "LIMIT" /\ order.side = "SELL"
          /\ Val(order.limit_price) > Val(stock)
    THEN HttpErr(400, "Sell limit price too high")
  ELSE HttpOk

\* mutant: the admission checks without the limit price check
ExecAdmissionAnyPrice(order, stock, req) ==
  IF order.status \notin ExecutableStatus
    THEN HttpErr(400, "Order cannot be executed")
  ELSE IF IsNone(stock)
    THEN HttpErr(400, "Stock not found in universe")
  ELSE IF order.time_in_force = "FOK"
          /\ ExecQuantity(order, req) # order.remaining_quantity
    THEN HttpErr(400, "FOK order must be filled completely")
  ELSE HttpOk

\* the admission checks of execute_order on the order and stock rows it has read;
\* a limit order without limit_price makes the comparison raise (HTTP 500)
ExecAdmission(order, stock, req) ==
  IF order.status \notin ExecutableStatus
    THEN HttpErr(400, "Order cannot be executed")
  ELSE IF IsNone(stock)
    THEN HttpErr(400, "Stock not found in universe")
  ELSE IF order.order_type = "LIMIT" /\ IsNone(order.limit_price)
    THEN HttpErr(500, "TypeError")
  ELSE IF order.order_type = "LIMIT" /\ order.side = "BUY"
          /\ Val(order.limit_price) < Val(stock)
    THEN HttpErr(400, "Buy limit price too low")
  ELSE IF order.order_type = "LIMIT" /\ order.side = "SELL"
          /\ Val(order.limit_price) > Val(stock)
    THEN HttpErr(400, "Sell limit price too high")
  ELSE IF order.time_in_force = "FOK"
          /\ ExecQuantity(order, req) # order.remaining_quantity
    THEN HttpErr(400, "FOK order must be filled completely")
  ELSE HttpOk

\* mutants: the quantity assigned instead of added; the remaining quantity
\* left as it was
NewFilledAssigned(order, q) == q
NewRemainingKept(order, q) == order.remaining_quantity

NewFilled(order, q) == order.filled_quantity + q
NewRemaining(order, q) == order.remaining_quantity - q
FillStatus(remaining) == IF remaining = 0 THEN "FILLED" ELSE "PARTIALLY_FILLED"

\* the order object after execute_order's assignments, before the commit
FilledOrder(order, q) ==
  [order EXCEPT !.filled_quantity = NewFilled(order, q),
                !.remaining_quantity = NewRemaining(order, q),
                !.status = FillStatus(NewRemaining(order, q))]

\* The unit of work flushes an UPDATE of the columns whose value differs from
\* the one loaded: the row keeps every other column as it is in the table.
FlushRow(row, loaded, changed) ==
  [row EXCEPT !.status = IF changed.status # loaded.status
                           THEN changed.status ELSE row.status,
              !.filled_quantity = IF changed.filled_quantity # loaded.filled_quantity
                                    THEN changed.filled_quantity ELSE row.filled_quantity,
              !.remaining_quantity = IF changed.remaining_quantity # loaded.remaining_quantity
                                       THEN changed.remaining_quantity ELSE row.remaining_quantity,
              !.reject_reason = IF changed.reject_reason # loaded.reject_reason
                                  THEN changed.reject_reason ELSE row.reject_reason]

\* Execution(order_id, exec_id, exec_quantity, exec_price); exec_id is the row's
\* position in the table (a fresh token per execution)
ExecutionRow(order_id, q, px) ==
  [order_id |-> order_id, exec_quantity |-> q, exec_price |-> px]

\* session.add(execution); order.filled_quantity += q; ...; session.commit():
\* the INSERT and the UPDATE are one transaction
CommitFill(tbl, ex, order_id, loaded, q, px) ==
  [orders |-> [tbl EXCEPT ![order_id] = FlushRow(@, loaded, FilledOrder(loaded, q))],
   executions |-> Append(ex, ExecutionRow(order_id, q, px))]

\* ------------------------------------------------------------- admin cancel, reject
CancelAdmission(order) ==
  IF order.status \notin ExecutableStatus
    THEN HttpErr(400, "Order cannot be canceled")
    ELSE HttpOk

\* mutant: a cancel also gives up the open quantity
CanceledOrderZeroed(order) ==
  [order EXCEPT !.status = "CANCELED", !.remaining_quantity = 0]

CanceledOrder(order) == [order EXCEPT !.status = "CANCELED"]

\* mutant: reject admitted on any order that is not finished
RejectAdmissionLoose(order) ==
  IF order.status \notin ExecutableStatus
    THEN HttpErr(400, "Only new orders can be rejected")
    ELSE HttpOk

RejectAdmission(order) ==
  IF order.status # "NEW"
    THEN HttpErr(400, "Only new orders can be rejected")
    ELSE HttpOk

RejectedOrder(order, reason) ==
  [order EXCEPT !.status = "REJECTED", !.reject_reason = Some(reason)]

\* order.status = ...; session.commit()
CommitStatus(tbl, order_id, loaded, changed) ==
  [tbl EXCEPT ![order_id] = FlushRow(@, loaded, changed)]

\* ------------------------------------------------------------- session registry
\* self.clients is a dict: a new key goes last, an existing key keeps its place
ClientIdx(cl, sock) == {i \in 1..Len(cl) : cl[i].sock = sock}
InClients(cl, sock) == ClientIdx(cl, sock) # {}
ClientInfo(cl, sock) == cl[CHOOSE i \in ClientIdx(cl, sock) : TRUE]

ClientsPut(cl, sock, target_comp_id) ==
  IF InClients(cl, sock)
    THEN [i \in 1..Len(cl) |->
            IF cl[i].sock = sock
              THEN [sock |-> sock, target_comp_id |-> target_comp_id] ELSE cl[i]]
    ELSE Append(cl, [sock |-> sock, target_comp_id |-> target_comp_id])

ClientsDel(cl, sock) == SelectSeq(cl, LAMBDA e : e.sock # sock)

\* mutant: with no matching entry the report goes to the first registered socket
RouteOrFirst(cl, sender_comp_id) ==
  LET hits == {i \in 1..Len(cl) : cl[i].target_comp_id = sender_comp_id}
  IN IF cl = << >> THEN None
     ELSE IF hits = {} THEN Some(cl[1].sock)
     ELSE Some(cl[CHOOSE i \in hits : \A j \in hits : i <= j].sock)

\* mutant: the report goes to the first registered socket, whatever its peer
RouteFirstEntry(cl, sender_comp_id) ==
  IF cl = << >> THEN None ELSE Some(cl[1].sock)

\* the loop of send_execution_to_client: the first entry whose target_comp_id
\* is the order's sender_comp_id, if any
RouteBySender(cl, sender_comp_id) ==
  LET hits == {i \in 1..Len(cl) : cl[i].target_comp_id = sender_comp_id}
  IN IF hits = {} THEN None
     ELSE Some(cl[CHOOSE i \in hits : \A j \in hits : i <= j].sock)

\* ------------------------------------------------------------- outbound messages
BrokerId == "BROKER"

LogonReply(target_comp_id, seq) ==
  [msg_type |-> "A", sender |-> BrokerId, target |-> target_comp_id, seq |-> seq]

\* AvgPx as the exact quotient total_value / filled_quantity
AvgPxZero == [num |-> 0, den |-> 1]

RECURSIVE SumValue(_, _)
SumValue(ex, idx) ==
  IF idx = {} THEN 0
  ELSE LET i == CHOOSE j \in idx : TRUE
       IN ex[i].exec_quantity * ex[i].exec_price + SumValue(ex, idx \ {i})

AvgPx(ex, order_id, filled_quantity) ==
  IF filled_quantity > 0
    THEN [num |-> SumValue(ex, ExecIdxOf(ex, order_id)), den |-> filled_quantity]
    ELSE AvgPxZero

SideCode(side) == IF side = "BUY" THEN "1" ELSE "2"
OrdTypeCode(order_type) == IF order_type = "MARKET" THEN "1" ELSE "2"

\* the message _send_execution_report builds: f holds the caller's arguments
ExecutionReport(target_comp_id, seq, f) ==
  [msg_type |-> "8", sender |-> BrokerId, target |-> target_comp_id, seq |-> seq,
   cl_ord_id |-> f.cl_ord_id, exec_type |-> f.exec_type, ord_status |-> f.ord_status,
   symbol |-> f.symbol, side |-> f.side, order_qty |-> f.order_qty,
   ord_type |-> f.ord_type, last_qty |-> f.last_qty, last_px |-> f.last_px,
   cum_qty |-> f.cum_qty, avg_px |-> f.avg_px,
   leaves_qty |-> f.order_qty - f.cum_qty]

\* client_socket.send(encoded) raises on a closed socket
Connected(cn, sock) == cn[sock] \in {"accepted", "open"}

CanSend(cn, sock) == Connected(cn, sock)

NextSeqNum(n) == n + 1

\* _send_message on a stamped message: the write, then the counter's increment;
\* a failed write is logged and leaves both as they were
SendMessage(net, cn, sock, msg) ==
  IF CanSend(cn, sock)
    THEN [wire |-> [net.wire EXCEPT ![sock] = Append(@, msg)],
          seq |-> NextSeqNum(net.seq)]
    ELSE net

\* _send_execution_report run in one piece on a registered socket
SendExecutionReport(net, cn, cl, sock, f) ==
  SendMessage(net, cn, sock,
              ExecutionReport(ClientInfo(cl, sock).target_comp_id, net.seq, f))

\* send_execution_to_client run in one piece
SendExecutionToClient(net, cn, cl, sender_comp_id, f) ==
  LET hit == RouteBySender(cl, sender_comp_id)
  IN IF IsNone(hit) THEN net ELSE SendExecutionReport(net, cn, cl, Val(hit), f)

\* the arguments execute_order passes: exec_type, ord_status, last_qty and
\* last_px are its locals, the rest is read from the order after the commit
FillReport(row, ex, order_id, status, q, px) ==
  [cl_ord_id |-> row.cl_ord_id,
   exec_type |-> IF status = "FILLED" THEN "2" ELSE "1",
   ord_status |-> IF status = "FILLED" THEN "2" ELSE "1",
   last_qty |-> Some(q), last_px |-> Some(px),
   cum_qty |-> row.filled_quantity,
   avg_px |-> AvgPx(ex, order_id, row.filled_quantity),
   symbol |-> row.symbol, side |-> SideCode(row.side),
   order_qty |-> row.quantity, ord_type |-> OrdTypeCode(row.order_type)]

CancelReport(row) ==
  [cl_ord_id |-> row.cl_ord_id, exec_type |-> "4", ord_status |-> "4",
   last_qty |-> None, last_px |-> None,
   cum_qty |-> row.filled_quantity, avg_px |-> AvgPxZero,
   symbol |-> row.symbol, side |-> SideCode(row.side),
   order_qty |-> row.quantity, ord_type |-> OrdTypeCode(row.order_type)]

RejectReport(row) ==
  [cl_ord_id |-> row.cl_ord_id, exec_type |-> "8", ord_status |-> "8",
   last_qty |-> None, last_px |-> None,
   cum_qty |-> 0, avg_px |-> AvgPxZero,
   symbol |-> row.symbol, side |-> SideCode(row.side),
   order_qty |-> row.quantity, ord_type |-> OrdTypeCode(row.order_type)]

\* ------------------------------------------------------------- inbound NewOrderSingle
\* An inbound NewOrderSingle is its tags, each absent (None) or present.
RequiredTags(m) == << m.cl_ord_id, m.symbol, m.side, m.order_qty, m.ord_type, m.sender >>

\* msg.get(tag).decode(...) raises on an absent tag
Parses(m) == \A i \in 1..6 : ~IsNone(RequiredTags(m)[i])

SideEnum(side) == IF side = "1" THEN "BUY" ELSE "SELL"
OrderTypeEnum(ord_type) == IF ord_type = "1" THEN "MARKET" ELSE "LIMIT"
TifEnum(tif) ==
  IF IsNone(tif) THEN "DAY"
  ELSE CASE Val(tif) = "0" -> "DAY"
         [] Val(tif) = "1" -> "GTC"
         [] Val(tif) = "3" -> "IOC"
         [] Val(tif) = "4" -> "FOK"
         [] OTHER -> "DAY"

\* the row _handle_new_order inserts for a message that parses
RowOfMessage(m) ==
  NewOrderRow(Val(m.cl_ord_id), Val(m.sender), Val(m.symbol), SideEnum(Val(m.side)),
              OrderTypeEnum(Val(m.ord_type)), Val(m.order_qty), m.price, TifEnum(m.tif))

\* the acknowledgement's arguments: CumQty and AvgPx take their defaults
NewReport(m) ==
  [cl_ord_id |-> Val(m.cl_ord_id), exec_type |-> "0", ord_status |-> "0",
   last_qty |-> None, last_px |-> None, cum_qty |-> 0, avg_px |-> AvgPxZero,
   symbol |-> Val(m.symbol), side |-> Val(m.side),
   order_qty |-> Val(m.order_qty), ord_type |-> Val(m.ord_type)]

\* ------------------------------------------------------------- state
Threads == Workers \cup Sockets
Idle == [pc |-> "idle"]
NoResp == [kind |-> "none", order_id |-> 0, code |-> 0, sock |-> "", msg_type |-> ""]
Resp(kind, order_id, code) ==
  [kind |-> kind, order_id |-> order_id, code |-> code, sock |-> "", msg_type |-> ""]
Rx(sock, msg_type) ==
  [kind |-> "rx", order_id |-> 0, code |-> 0, sock |-> sock, msg_type |-> msg_type]

\* the symbol universe loaded at start-up
InitialUniverse == [sym \in Symbols |-> IF sym = "AAPL" THEN Some(2) ELSE None]

\* mutant: a symbol that is not in the table is found at price 1
FindStockOrDefault(tbl, symbol) == IF IsNone(tbl[symbol]) THEN Some(1) ELSE tbl[symbol]

\* session.query(Stock).filter_by(symbol=...).first()
FindStock(tbl, symbol) == tbl[symbol]

Init ==
  /\ orders = << >>
  /\ executions = << >>
  /\ stocks = InitialUniverse
  /\ conn = [s \in Sockets |-> "unused"]
  /\ clients = << >>
  /\ msg_seq_num = 1
  /\ wire = [s \in Sockets |-> << >>]
  /\ thr = [t \in Threads |-> Idle]
  /\ ev = NoResp

Net == [wire |-> wire, seq |-> msg_seq_num]

\* ------------------------------------------------------------- connections
\* _accept_connections: a connection is accepted and its reader thread starts
Accept(s) ==
  /\ conn[s] = "unused"
  /\ conn' = [conn EXCEPT ![s] = "accepted"]
  /\ ev' = NoResp
  /\ UNCHANGED << orders, executions, stocks, clients, msg_seq_num, wire, thr >>

\* _handle_client: recv returns no data; the socket is closed and unregistered
Disconnect(s) ==
  /\ Connected(conn, s)
  /\ thr[s].pc = "idle"
  /\ conn' = [conn EXCEPT ![s] = "closed"]
  /\ clients' = ClientsDel(clients, s)
  /\ ev' = NoResp
  /\ UNCHANGED << orders, executions, stocks, msg_seq_num, wire, thr >>

\* _handle_logon, run in one piece
HandleLogon(s, peer) ==
  /\ Connected(conn, s)
  /\ thr[s].pc = "idle"
  /\ msg_seq_num <= MaxSeq
  /\ conn' = [conn EXCEPT ![s] = "open"]
  /\ clients' = ClientsPut(clients, s, peer)
  /\ LET net == SendMessage(Net, conn, s, LogonReply(peer, msg_seq_num))
     IN wire' = net.wire /\ msg_seq_num' = net.seq
  /\ ev' = Rx(s, "A")
  /\ UNCHANGED << orders, executions, stocks, thr >>

\* _handle_new_order, run in one piece: a message that does not parse, or whose
\* INSERT fails on the UNIQUE cl_ord_id, raises into the handler's except; so
\* does the acknowledgement on a socket that is not registered (KeyError)
HandleNewOrder(s, m) ==
  /\ Connected(conn, s)
  /\ thr[s].pc = "idle"
  /\ msg_seq_num <= MaxSeq
  /\ conn' = [conn EXCEPT ![s] = "open"]
  /\ ev' = Rx(s, "D")
  /\ IF ~Parses(m) \/ ClOrdIdTaken(orders, Val(m.cl_ord_id))
       THEN UNCHANGED << orders, executions, stocks, clients, msg_seq_num, wire, thr >>
       ELSE /\ orders' = Append(orders, RowOfMessage(m))
            /\ LET net == IF InClients(clients, s)
                            THEN SendExecutionReport(Net, conn, clients, s, NewReport(m))
                            ELSE Net
               IN wire' = net.wire /\ msg_seq_num' = net.seq
            /\ UNCHANGED << executions, stocks, clients, thr >>

\* ------------------------------------------------------------- admin actions, one at a time
AllIdle == \A t \in Threads : thr[t].pc = "idle"

\* execute_order, run in one piece
ExecuteOrder(order_id, req) ==
  /\ AllIdle
  /\ msg_seq_num <= MaxSeq
  /\ Len(executions) < MaxExecs
  /\ LET found == FindOrder(orders, order_id)
     IN IF IsNone(found)
          THEN /\ ev' = Resp("execute", order_id, 404)
               /\ UNCHANGED << orders, executions, stocks, conn, clients, msg_seq_num, wire, thr >>
          ELSE LET order == Val(found)
                   stock == FindStock(stocks, order.symbol)
                   adm == ExecAdmission(order, stock, req)
               IN IF adm.code # 200
                    THEN /\ ev' = Resp("execute", order_id, adm.code)
                         /\ UNCHANGED << orders, executions, stocks, conn, clients,
                                         msg_seq_num, wire, thr >>
                    ELSE LET q == ExecQuantity(order, req)
                             px == Val(stock)
                             db == CommitFill(orders, executions, order_id, order, q, px)
                             row == db.orders[order_id]
                             net == SendExecutionToClient(Net, conn, clients, row.sender_comp_id,
                                      FillReport(row, db.executions, order_id,
                                                 FilledOrder(order, q).status, q, px))
                         IN /\ orders' = db.orders
                            /\ executions' = db.executions
                            /\ wire' = net.wire
                            /\ msg_seq_num' = net.seq
                            /\ ev' = Resp("execute", order_id, 200)
                            /\ UNCHANGED << stocks, conn, clients, thr >>

\* cancel_order, run in one piece
CancelOrder(order_id) ==
  /\ AllIdle
  /\ msg_seq_num <= MaxSeq
  /\ LET found == FindOrder(orders, order_id)
     IN IF IsNone(found)
          THEN /\ ev' = Resp("cancel", order_id, 404)
               /\ UNCHANGED << orders, executions, stocks, conn, clients, msg_seq_num, wire, thr >>
          ELSE LET order == Val(found)
                   adm == CancelAdmission(order)
               IN IF adm.code # 200
                    THEN /\ ev' = Resp("cancel", order_id, adm.code)
                         /\ UNCHANGED << orders, executions, stocks, conn, clients,
                                         msg_seq_num, wire, thr >>
                    ELSE LET tbl == CommitStatus(orders, order_id, order, CanceledOrder(order))
                             row == tbl[order_id]
                             net == SendExecutionToClient(Net, conn, clients, row.sender_comp_id,
                                                          CancelReport(row))
                         IN /\ orders' = tbl
                            /\ wire' = net.wire
                            /\ msg_seq_num' = net.seq
                            /\ ev' = Resp("cancel", order_id, 200)
                            /\ UNCHANGED << executions, stocks, conn, clients, thr >>

\* reject_order, run in one piece
RejectOrder(order_id, reason) ==
  /\ AllIdle
  /\ msg_seq_num <= MaxSeq
  /\ LET found == FindOrder(orders, order_id)
     IN IF IsNone(found)
          THEN /\ ev' = Resp("reject", order_id, 404)
               /\ UNCHANGED << orders, executions, stocks, conn, clients, msg_seq_num, wire, thr >>
          ELSE LET order == Val(found)
                   adm == RejectAdmission(order)
               IN IF adm.code # 200
                    THEN /\ ev' = Resp("reject", order_id, adm.code)
                         /\ UNCHANGED << orders, executions, stocks, conn, clients,
                                         msg_seq_num, wire, thr >>
                    ELSE LET tbl == CommitStatus(orders, order_id, order,
                                                 RejectedOrder(order, reason))
                             row == tbl[order_id]
                             net == SendExecutionToClient(Net, conn, clients, row.sender_comp_id,
                                                          RejectReport(row))
                         IN /\ orders' = tbl
                            /\ wire' = net.wire
                            /\ msg_seq_num' = net.seq
                            /\ ev' = Resp("reject", order_id, 200)
                            /\ UNCHANGED << executions, stocks, conn, clients, thr >>

\* ------------------------------------------------------------- Spec: handlers run one at a time
OrderQtys == 0..MaxQty

\* the NewOrderSingle messages clients send in Spec: one order identifier;
\* market orders and buy limit orders below and above the reference price;
\* day, immediate-or-cancel and fill-or-kill; a symbol in the universe and one
\* that is not
OrderMsgs ==
  [sender : {Some("C1")}, cl_ord_id : {Some("O1")},
   symbol : {Some(y) : y \in Symbols}, side : {Some("1")},
   order_qty : {Some(q) : q \in OrderQtys},
   ord_type : {Some("1")}, price : {None}, tif : {None, Some("3"), Some("4")}]
  \cup
  [sender : {Some("C1")}, cl_ord_id : {Some("O1")},
   symbol : {Some("AAPL")}, side : {Some("1")},
   order_qty : {Some(q) : q \in OrderQtys},
   ord_type : {Some("2")}, price : {Some(1), Some(3)}, tif : {None, Some("3"), Some("4")}]

\* the order id the admin acts on: no such order until the first is stored
AdminOrderIds == {1}

Next ==
  \/ Accept("s1")
  \/ Disconnect("s1")
  \/ HandleLogon("s1", "C1")
  \/ \E m \in OrderMsgs : HandleNewOrder("s1", m)
  \/ \E id \in AdminOrderIds, req \in FillRequests : ExecuteOrder(id, req)
  \/ \E id \in AdminOrderIds : CancelOrder(id)
  \/ \E id \in AdminOrderIds : RejectOrder(id, "Rejected by admin")

Spec == Init /\ [][Next]_vars

\* ------------------------------------------------------------- admin actions on concurrent workers
(* Each admin request runs on its own worker with its own database session.  *)
(* The session reads the order row (and the stock row) when the handler      *)
(* queries it; a SELECT opens no transaction, so nothing is locked until the *)
(* flush.  session.commit() then writes, in one transaction, the INSERT of   *)
(* the execution and an UPDATE carrying the values the handler computed from *)
(* the row it had loaded.  After the commit the session's objects are        *)
(* expired: the report reads the row again.                                  *)

\* execute_order up to the commit: the reads and the admission checks
BeginExecute(w, order_id, req) ==
  /\ thr[w].pc = "idle"
  /\ msg_seq_num <= MaxSeq
  /\ Len(executions) < MaxExecs
  /\ LET found == FindOrder(orders, order_id)
     IN IF IsNone(found)
          THEN /\ ev' = Resp("execute", order_id, 404)
               /\ UNCHANGED thr
          ELSE LET order == Val(found)
                   stock == FindStock(stocks, order.symbol)
                   adm == ExecAdmission(order, stock, req)
               IN IF adm.code # 200
                    THEN /\ ev' = Resp("execute", order_id, adm.code)
                         /\ UNCHANGED thr
                    ELSE /\ ev' = NoResp
                         /\ thr' = [thr EXCEPT ![w] =
                              [pc |-> "commit", kind |-> "execute", order_id |-> order_id,
                               loaded |-> order, q |-> ExecQuantity(order, req),
                               px |-> Val(stock), reason |-> ""]]
  /\ UNCHANGED << orders, executions, stocks, conn, clients, msg_seq_num, wire >>

\* cancel_order up to the commit
BeginCancel(w, order_id) ==
  /\ thr[w].pc = "idle"
  /\ msg_seq_num <= MaxSeq
  /\ LET found == FindOrder(orders, order_id)
     IN IF IsNone(found)
          THEN /\ ev' = Resp("cancel", order_id, 404)
               /\ UNCHANGED thr
          ELSE LET order == Val(found)
                   adm == CancelAdmission(order)
               IN IF adm.code # 200
                    THEN /\ ev' = Resp("cancel", order_id, adm.code)
                         /\ UNCHANGED thr
                    ELSE /\ ev' = NoResp
                         /\ thr' = [thr EXCEPT ![w] =
                              [pc |-> "commit", kind |-> "cancel", order_id |-> order_id,
                               loaded |-> order, q |-> 0, px |-> 0, reason |-> ""]]
  /\ UNCHANGED << orders, executions, stocks, conn, clients, msg_seq_num, wire >>

\* reject_order up to the commit
BeginReject(w, order_id, reason) ==
  /\ thr[w].pc = "idle"
  /\ msg_seq_num <= MaxSeq
  /\ LET found == FindOrder(orders, order_id)
     IN IF IsNone(found)
          THEN /\ ev' = Resp("reject", order_id, 404)
               /\ UNCHANGED thr
          ELSE LET order == Val(found)
                   adm == RejectAdmission(order)
               IN IF adm.code # 200
                    THEN /\ ev' = Resp("reject", order_id, adm.code)
                         /\ UNCHANGED thr
                    ELSE /\ ev' = NoResp
                         /\ thr' = [thr EXCEPT ![w] =
                              [pc |-> "commit", kind |-> "reject", order_id |-> order_id,
                               loaded |-> order, q |-> 0, px |-> 0, reason |-> reason]]
  /\ UNCHANGED << orders, executions, stocks, conn, clients, msg_seq_num, wire >>

\* the order object as the worker's handler has assigned it
ChangedOf(t) ==
  CASE t.kind = "execute" -> FilledOrder(t.loaded, t.q)
    [] t.kind = "cancel" -> CanceledOrder(t.loaded)
    [] OTHER -> RejectedOrder(t.loaded, t.reason)

\* session.commit() of the worker's handler
Commit(w) ==
  /\ thr[w].pc = "commit"
  /\ LET t == thr[w]
     IN IF t.kind = "execute"
          THEN LET db == CommitFill(orders, executions, t.order_id, t.loaded, t.q, t.px)
               IN orders' = db.orders /\ executions' = db.executions
          ELSE /\ orders' = CommitStatus(orders, t.order_id, t.loaded, ChangedOf(t))
               /\ UNCHANGED executions
  /\ thr' = [thr EXCEPT ![w].pc = "report"]
  /\ ev' = NoResp
  /\ UNCHANGED << stocks, conn, clients, msg_seq_num, wire >>

\* the arguments the worker's handler passes to send_execution_to_client
ReportOf(t, row, ex) ==
  CASE t.kind = "execute" -> FillReport(row, ex, t.order_id, ChangedOf(t).status, t.q, t.px)
    [] t.kind = "cancel" -> CancelReport(row)
    [] OTHER -> RejectReport(row)

\* the rest of the handler: the report, read from the committed row, is sent
\* and the handler returns success
Report(w) ==
  /\ thr[w].pc = "report"
  /\ LET t == thr[w]
         row == orders[t.order_id]
         net == SendExecutionToClient(Net, conn, clients, row.sender_comp_id,
                                      ReportOf(t, row, executions))
     IN /\ wire' = net.wire
        /\ msg_seq_num' = net.seq
        /\ ev' = Resp(t.kind, t.order_id, 200)
  /\ thr' = [thr EXCEPT ![w] = Idle]
  /\ UNCHANGED << orders, executions, stocks, conn, clients >>

\* the NewOrderSingle messages of SpecConc: market day orders
ConcOrderMsgs ==
  [sender : {Some("C1")}, cl_ord_id : {Some("O1")},
   symbol : {Some("AAPL")}, side : {Some("1")},
   order_qty : {Some(q) : q \in 1..MaxQty},
   ord_type : {Some("1")}, price : {None}, tif : {None}]

NextConc ==
  \/ Accept("s1")
  \/ HandleLogon("s1", "C1")
  \/ \E m \in ConcOrderMsgs : HandleNewOrder("s1", m)
  \/ \E w \in Workers, req \in FillRequests : BeginExecute(w, 1, req)
  \/ \E w \in Workers : BeginCancel(w, 1)
  \/ \E w \in Workers : BeginReject(w, 1, "Rejected by admin")
  \/ \E w \in Workers : Commit(w)
  \/ \E w \in Workers : Report(w)

SpecConc == Init /\ [][NextConc]_vars

\* ------------------------------------------------------------- sending, statement by statement
(* FIXServer holds no lock: a reader thread and an admin worker run           *)
(* _send_execution_report and _send_message at the same time.  A sender reads *)
(* msg_seq_num when it builds the message, writes the encoded message to the  *)
(* socket, then reads msg_seq_num again and stores the value plus one.        *)

Sending(pc, kind, order_id, sock, msg, n) ==
  [pc |-> pc, kind |-> kind, order_id |-> order_id, sock |-> sock, msg |-> msg, n |-> n]

\* the thread's handler returns: an admin worker answers 200
Returned(t) == IF thr[t].kind = "rx" THEN NoResp ELSE Resp(thr[t].kind, thr[t].order_id, 200)

\* _handle_new_order up to and including session.commit()
RxNewOrder(s, m) ==
  /\ Connected(conn, s)
  /\ thr[s].pc = "idle"
  /\ msg_seq_num <= MaxSeq
  /\ conn' = [conn EXCEPT ![s] = "open"]
  /\ ev' = Rx(s, "D")
  /\ IF ~Parses(m) \/ ClOrdIdTaken(orders, Val(m.cl_ord_id))
       THEN UNCHANGED << orders, thr >>
       ELSE /\ orders' = Append(orders, RowOfMessage(m))
            /\ thr' = [thr EXCEPT ![s] = [pc |-> "ack", m |-> m]]
  /\ UNCHANGED << executions, stocks, clients, msg_seq_num, wire >>

\* _send_execution_report for the acknowledgement, up to the built message:
\* self.clients[client_socket] raises on a socket that is not registered
AckStamp(s) ==
  /\ thr[s].pc = "ack"
  /\ thr' = [thr EXCEPT ![s] =
       IF InClients(clients, s)
         THEN Sending("send", "rx", 0, s,
                      ExecutionReport(ClientInfo(clients, s).target_comp_id, msg_seq_num,
                                      NewReport(thr[s].m)), 0)
         ELSE Idle]
  /\ ev' = NoResp
  /\ UNCHANGED << orders, executions, stocks, conn, clients, msg_seq_num, wire >>

\* after the commit: the handler reads the order again, send_execution_to_client
\* finds the socket and _send_execution_report builds the message
ReportStamp(w) ==
  /\ thr[w].pc = "report"
  /\ LET t == thr[w]
         row == orders[t.order_id]
         hit == RouteBySender(clients, row.sender_comp_id)
     IN IF IsNone(hit)
          THEN /\ thr' = [thr EXCEPT ![w] = Idle]
               /\ ev' = Resp(t.kind, t.order_id, 200)
          ELSE /\ thr' = [thr EXCEPT ![w] =
                    Sending("send", t.kind, t.order_id, Val(hit),
                            ExecutionReport(ClientInfo(clients, Val(hit)).target_comp_id,
                                            msg_seq_num, ReportOf(t, row, executions)), 0)]
               /\ ev' = NoResp
  /\ UNCHANGED << orders, executions, stocks, conn, clients, msg_seq_num, wire >>

\* client_socket.send(encoded): a closed socket raises, _send_message logs it and
\* returns without touching the counter
SockSend(t) ==
  /\ thr[t].pc = "send"
  /\ IF CanSend(conn, thr[t].sock)
       THEN /\ wire' = [wire EXCEPT ![thr[t].sock] = Append(@, thr[t].msg)]
            /\ thr' = [thr EXCEPT ![t].pc = "load"]
            /\ ev' = NoResp
       ELSE /\ thr' = [thr EXCEPT ![t] = Idle]
            /\ ev' = Returned(t)
            /\ UNCHANGED wire
  /\ UNCHANGED << orders, executions, stocks, conn, clients, msg_seq_num >>

\* self.msg_seq_num += 1: the read
LoadSeq(t) ==
  /\ thr[t].pc = "load"
  /\ thr' = [thr EXCEPT ![t].pc = "store", ![t].n = msg_seq_num]
  /\ ev' = NoResp
  /\ UNCHANGED << orders, executions, stocks, conn, clients, msg_seq_num, wire >>

\* self.msg_seq_num += 1: the write; the handler then returns
StoreSeq(t) ==
  /\ thr[t].pc = "store"
  /\ msg_seq_num' = NextSeqNum(thr[t].n)
  /\ thr' = [thr EXCEPT ![t] = Idle]
  /\ ev' = Returned(t)
  /\ UNCHANGED << orders, executions, stocks, conn, clients, wire >>

\* the NewOrderSingle messages of SpecSend: two market day orders of 1
SendOrderMsgs ==
  [sender : {Some("C1")}, cl_ord_id : {Some(c) : c \in ClOrdIds},
   symbol : {Some("AAPL")}, side : {Some("1")}, order_qty : {Some(1)},
   ord_type : {Some("1")}, price : {None}, tif : {None}]

SendThreads == {"s1", "w1"}

NextSend ==
  \/ Accept("s1")
  \/ HandleLogon("s1", "C1")
  \/ \E m \in SendOrderMsgs : RxNewOrder("s1", m)
  \/ AckStamp("s1")
  \/ \E id \in {1, 2} : BeginExecute("w1", id, None)
  \/ Commit("w1")
  \/ ReportStamp("w1")
  \/ \E t \in SendThreads : SockSend(t)
  \/ \E t \in SendThreads : LoadSeq(t)
  \/ \E t \in SendThreads : StoreSeq(t)

SpecSend == Init /\ [][NextSend]_vars

\* ------------------------------------------------------------- SpecSess: several sessions
\* the NewOrderSingle messages of SpecSess: one market day order of 1
SessOrderMsgs ==
  [sender : {Some("C1")}, cl_ord_id : {Some("O1")},
   symbol : {Some("AAPL")}, side : {Some("1")}, order_qty : {Some(1)},
   ord_type : {Some("1")}, price : {None}, tif : {None}]

NextSess ==
  \/ \E s \in Sockets : Accept(s)
  \/ \E s \in Sockets : Disconnect(s)
  \/ \E s \in Sockets, peer \in Peers : HandleLogon(s, peer)
  \/ \E s \in Sockets, m \in SessOrderMsgs : HandleNewOrder(s, m)
  \/ ExecuteOrder(1, None)
  \/ CancelOrder(1)

SpecSess == Init /\ [][NextSess]_vars

\* ------------------------------------------------------------- quantity invariants
HasExecution(order_id) == ExecIdxOf(executions, order_id) # {}

\* C1: every persisted order has filled_quantity + remaining_quantity = quantity,
\* after any sequence of submit, admin fill, admin cancel and admin reject.
C1_QuantitySplit ==
  \A i \in OrderIds :
    orders[i].filled_quantity + orders[i].remaining_quantity = orders[i].quantity

\* an order of 2 filled by two fills
C1_Witness ==
  \E i \in OrderIds :
    /\ orders[i].status = "FILLED"
    /\ orders[i].quantity = 2
    /\ Cardinality(ExecIdxOf(executions, i)) = 2

\* C2: every persisted order's filled_quantity is the sum of exec_quantity over
\* its executions, after any sequence of handlers run one at a time.
C2_FilledIsSumOfExecutions ==
  \A i \in OrderIds : orders[i].filled_quantity = ExecQtySum(executions, i)

\* an order canceled after a partial fill of 1
C2_Witness ==
  \E i \in OrderIds :
    /\ orders[i].status = "CANCELED"
    /\ orders[i].filled_quantity = 1
    /\ HasExecution(i)

\* C4: in every committed state, an order has status FILLED exactly when its
\* remaining_quantity is 0 and it has at least one execution.
C4_FilledIffNothingRemains ==
  \A i \in OrderIds :
    orders[i].status = "FILLED" <=> (orders[i].remaining_quantity = 0 /\ HasExecution(i))

\* C5: an order has status PARTIALLY_FILLED exactly when
\* 0 < filled_quantity < quantity.
C5_PartiallyFilledIffStrictlyBetween ==
  \A i \in OrderIds :
    orders[i].status = "PARTIALLY_FILLED"
      <=> (0 < orders[i].filled_quantity /\ orders[i].filled_quantity < orders[i].quantity)

\* C6: an admin fill, cancel or reject on an order whose status is FILLED,
\* CANCELED or REJECTED returns an error, leaves the orders and executions
\* tables as they were and writes nothing to any socket.
C6_TerminalIsAbsorbing ==
  [][\A i \in OrderIds :
       (orders[i].status \in Terminal /\ ev'.kind # "none" /\ ev'.order_id = i)
         => /\ ev'.code = 400
            /\ orders' = orders
            /\ executions' = executions
            /\ wire' = wire
            /\ msg_seq_num' = msg_seq_num]_vars

\* a cancel refused on a filled order whose sender is logged on
C6_Witness ==
  /\ ev = Resp("cancel", 1, 400)
  /\ Len(orders) >= 1
  /\ orders[1].status = "FILLED"
  /\ RouteBySender(clients, orders[1].sender_comp_id) # None

\* C3: with admin fills running concurrently on one order, every committed
\* state has filled_quantity equal to the sum of exec_quantity over the order's
\* executions, and filled_quantity never exceeds quantity.
C3_ConcurrentFillsKeepQuantities ==
  \A i \in OrderIds :
    /\ orders[i].filled_quantity = ExecQtySum(executions, i)
    /\ orders[i].filled_quantity <= orders[i].quantity

\* C7: once CANCELED or REJECTED is committed, the status is never overwritten
\* and no execution is appended to the order, under any interleaving of
\* concurrent admin actions.
C7_NoExecutionAfterCancelOrReject ==
  [][\A i \in OrderIds :
       orders[i].status \in {"CANCELED", "REJECTED"}
         => /\ orders'[i].status = orders[i].status
            /\ ExecIdxOf(executions', i) = ExecIdxOf(executions, i)]_vars

\* C10: when the first message dispatched on a connection is not a Logon, the
\* connection is closed and the message changes nothing: no order is stored
\* and nothing is sent.
C10_NonLogonFirstMessageClosesSession ==
  [][\A s \in Sockets :
       (conn[s] = "accepted" /\ ev'.kind = "rx" /\ ev'.sock = s /\ ev'.msg_type # "A")
         => /\ conn'[s] = "closed"
            /\ orders' = orders
            /\ executions' = executions
            /\ wire' = wire]_vars

\* C8: on each session the outbound messages carry the sequence numbers
\* 1, 2, 3, ...: the k-th message written to a socket has MsgSeqNum k, whatever
\* is sent on other sessions.
C8_PerSessionSequenceNumbers ==
  \A s \in Sockets : \A k \in 1..Len(wire[s]) : wire[s][k].seq = k

\* C9: two messages written to the same socket never carry the same MsgSeqNum,
\* also when one is sent by the connection's reader and the other by an admin
\* worker.
C9_NoDuplicateSequenceNumber ==
  \A s \in Sockets : \A j, k \in 1..Len(wire[s]) :
    j < k => wire[s][j].seq # wire[s][k].seq

\* ------------------------------------------------------------- order entry
\* the last message of a sequence of at least one
Last(q) == q[Len(q)]

\* the execution report is an acknowledgement of an order of quantity Q
IsNewAck(r, Q) ==
  /\ r.msg_type = "8"
  /\ r.exec_type = "0"
  /\ r.ord_status = "0"
  /\ r.cum_qty = 0
  /\ r.leaves_qty = Q
  /\ r.avg_px = AvgPxZero

\* C11: a NewOrderSingle of quantity Q that is accepted (its order is stored)
\* stores the order with status NEW, filled_quantity 0 and remaining_quantity Q
\* and writes exactly one ExecutionReport to the submitting socket, with
\* ExecType new, OrdStatus new, CumQty 0, LeavesQty Q and AvgPx 0.
C11_AcceptedOrderIsAcknowledged ==
  [][\A m \in OrderMsgs :
       (HandleNewOrder("s1", m) /\ Len(orders') = Len(orders) + 1)
         => /\ Last(orders').status = "NEW"
            /\ Last(orders').filled_quantity = 0
            /\ Last(orders').remaining_quantity = Val(m.order_qty)
            /\ Len(wire'["s1"]) = Len(wire["s1"]) + 1
            /\ IsNewAck(Last(wire'["s1"]), Val(m.order_qty))
            /\ Last(wire'["s1"]).cl_ord_id = Val(m.cl_ord_id)]_vars

\* ------------------------------------------------------------- SpecDup: two sessions submit at once
(* Each connection has its own reader thread and each NewOrderSingle its own *)
(* database session.  The handler reads nothing before it writes: the INSERT *)
(* and its UNIQUE check are one step of the database, whose write            *)
(* transactions are serialized.                                              *)

\* the NewOrderSingle messages of SpecDup: market day orders of 1 under either
\* order identifier
DupOrderMsgs ==
  [sender : {Some("C1")}, cl_ord_id : {Some(c) : c \in ClOrdIds},
   symbol : {Some("AAPL")}, side : {Some("1")}, order_qty : {Some(1)},
   ord_type : {Some("1")}, price : {None}, tif : {None}]

NextDup ==
  \/ \E s \in Sockets : Accept(s)
  \/ \E s \in Sockets : HandleLogon(s, "C1")
  \/ \E s \in Sockets, m \in DupOrderMsgs : RxNewOrder(s, m)
  \/ \E s \in Sockets : AckStamp(s)
  \/ \E s \in Sockets : SockSend(s)
  \/ \E s \in Sockets : LoadSeq(s)
  \/ \E s \in Sockets : StoreSeq(s)

SpecDup == Init /\ [][NextDup]_vars

\* C12: no two persisted orders share a cl_ord_id, also when two sessions
\* submit the same ClOrdID at the same time: one submission stores an order,
\* the other stores none.
C12_ClOrdIdIsUnique ==
  \A i, j \in OrderIds : i # j => orders[i].cl_ord_id # orders[j].cl_ord_id

\* the reader of s1 has stored O1 and not yet acknowledged it when s2 submits:
\* the submission on s2 stored nothing
C12_Witness ==
  /\ thr["s1"].pc = "ack"
  /\ Val(thr["s1"].m.cl_ord_id) = "O1"
  /\ ev = Rx("s2", "D")
  /\ Len(orders) = 1
  /\ orders[1].cl_ord_id = "O1"

\* ------------------------------------------------------------- rejected submissions
\* the step wrote exactly one message to socket s, an ExecutionReport with
\* ExecType rejected and OrdStatus rejected, and stored nothing
RejectedOnWire(s) ==
  /\ orders' = orders
  /\ Len(wire'[s]) = Len(wire[s]) + 1
  /\ Last(wire'[s]).msg_type = "8"
  /\ Last(wire'[s]).exec_type = "8"
  /\ Last(wire'[s]).ord_status = "8"

\* C13: a NewOrderSingle whose ClOrdID is already stored, received on a logged-on
\* session, leaves the stored orders unchanged and is answered with exactly one
\* ExecutionReport with ExecType rejected and OrdStatus rejected on that session.
C13_DuplicateIsRejectedOnWire ==
  [][\A m \in OrderMsgs :
       (/\ HandleNewOrder("s1", m)
        /\ InClients(clients, "s1")
        /\ ClOrdIdTaken(orders, Val(m.cl_ord_id)))
         => RejectedOnWire("s1")]_vars

\* ------------------------------------------------------------- SpecIn: NewOrderSingle messages of any shape
\* FIXNewOrderSingle: the declared schema of a NewOrderSingle.  The tags are
\* required and non-empty, Side, OrdType and TimeInForce are enumerated,
\* OrderQty is above 0, Price is above 0 when given and is required for the
\* limit and stop-limit types.
SideCodes == {"1", "2"}
OrdTypeCodes == {"1", "2", "3", "4"}
TifCodes == {"0", "1", "3", "4"}

SchemaValid(m) ==
  /\ ~IsNone(m.sender)
  /\ ~IsNone(m.cl_ord_id)
  /\ ~IsNone(m.symbol)
  /\ ~IsNone(m.side) /\ Val(m.side) \in SideCodes
  /\ ~IsNone(m.ord_type) /\ Val(m.ord_type) \in OrdTypeCodes
  /\ ~IsNone(m.order_qty) /\ Val(m.order_qty) > 0
  /\ (IsNone(m.price) \/ Val(m.price) > 0)
  /\ (IsNone(m.tif) \/ Val(m.tif) \in TifCodes)
  /\ (Val(m.ord_type) \in {"2", "4"} => ~IsNone(m.price))

\* the NewOrderSingle messages of SpecIn: each tag present or absent, in or out
\* of its enumeration, OrderQty from -1 up
InMsgs ==
  [sender : {Some("C1")}, cl_ord_id : {None, Some("O1")},
   symbol : {None, Some("AAPL")}, side : {None, Some("1"), Some("2"), Some("9")},
   order_qty : {None} \cup {Some(q) : q \in (-1)..MaxQty},
   ord_type : {None, Some("1"), Some("2"), Some("9")},
   price : {None, Some(1)}, tif : {None, Some("4"), Some("9")}]

NextIn ==
  \/ Accept("s1")
  \/ Disconnect("s1")
  \/ HandleLogon("s1", "C1")
  \/ \E m \in InMsgs : HandleNewOrder("s1", m)

SpecIn == Init /\ [][NextIn]_vars

\* C14: a NewOrderSingle that fails schema validation, received on a logged-on
\* session, is not stored and is answered on that session with an
\* ExecutionReport with ExecType rejected and OrdStatus rejected.
C14_InvalidOrderIsRejected ==
  [][\A m \in InMsgs :
       (HandleNewOrder("s1", m) /\ InClients(clients, "s1") /\ ~SchemaValid(m))
         => RejectedOnWire("s1")]_vars

\* C15: every persisted order has a limit_price exactly when its order_type is
\* LIMIT.
C15_LimitPriceIffLimitOrder ==
  \A i \in OrderIds : ~IsNone(orders[i].limit_price) <=> orders[i].order_type = "LIMIT"

\* ------------------------------------------------------------- SpecLimit: limit orders and a moving price
StockPrices == {1, 2, 3}

\* the contents of stock_universe.csv: each symbol absent or with a price
Universes == [Symbols -> {None} \cup {Some(p) : p \in StockPrices}]

\* reload_stocks, run in one piece: the rows are replaced by those of the file
\* in one commit; a file that cannot be read (csv = None) raises before the
\* commit and the answer is 500
ReloadStocks(csv) ==
  /\ AllIdle
  /\ IF IsNone(csv)
       THEN /\ ev' = Resp("reload", 0, 500)
            /\ UNCHANGED stocks
       ELSE /\ ev' = Resp("reload", 0, 200)
            /\ stocks' = Val(csv)
  /\ UNCHANGED << orders, executions, conn, clients, msg_seq_num, wire, thr >>

\* the files of SpecLimit: AAPL absent or at each price, MSFT absent
LimitUniverses == {u \in Universes : IsNone(u["MSFT"])}

\* the NewOrderSingle messages of SpecLimit: day orders of the largest
\* quantity, buy and sell, market and limit at 2
LimitOrderMsgs ==
  [sender : {Some("C1")}, cl_ord_id : {Some("O1")},
   symbol : {Some("AAPL")}, side : {Some("1"), Some("2")},
   order_qty : {Some(MaxQty)},
   ord_type : {Some("1")}, price : {None}, tif : {None}]
  \cup
  [sender : {Some("C1")}, cl_ord_id : {Some("O1")},
   symbol : {Some("AAPL")}, side : {Some("1"), Some("2")},
   order_qty : {Some(MaxQty)},
   ord_type : {Some("2")}, price : {Some(2)}, tif : {None}]

\* the fill requests of SpecLimit: the whole remaining quantity, or 1
LimitFillRequests == {None, Some(1)}

NextLimit ==
  \/ Accept("s1")
  \/ HandleLogon("s1", "C1")
  \/ \E m \in LimitOrderMsgs : HandleNewOrder("s1", m)
  \/ \E req \in LimitFillRequests : ExecuteOrder(1, req)
  \/ \E csv \in {None} \cup {Some(u) : u \in LimitUniverses} : ReloadStocks(csv)

SpecLimit == Init /\ [][NextLimit]_vars

\* the limit of the order crosses the price px
Crosses(order, px) ==
  /\ ~IsNone(order.limit_price)
  /\ order.side = "BUY" => Val(order.limit_price) >= px
  /\ order.side = "SELL" => Val(order.limit_price) <= px

\* C16: an admin fill on a limit order whose limit does not cross the symbol's
\* current last_price fails and changes no order, stores no execution and sends
\* no report; a fill that nothing else refuses is admitted when the limit
\* crosses, and always on a market order, and executes at the last_price.
C16_LimitPriceAdmission ==
  [][\A req \in LimitFillRequests :
       (/\ ExecuteOrder(1, req)
        /\ Len(orders) >= 1
        /\ orders[1].status \in ExecutableStatus
        /\ ~IsNone(FindStock(stocks, orders[1].symbol)))
         => LET order == orders[1]
                px == Val(FindStock(stocks, order.symbol))
            IN /\ (order.order_type = "LIMIT" /\ ~Crosses(order, px))
                    => /\ ev'.code # 200
                       /\ orders' = orders
                       /\ executions' = executions
                       /\ wire' = wire
               /\ (/\ order.order_type = "MARKET" \/ Crosses(order, px)
                   /\ order.time_in_force = "FOK"
                        => ExecQuantity(order, req) = order.remaining_quantity)
                    => /\ ev'.code = 200
                       /\ Len(executions') = Len(executions) + 1
                       /\ Last(executions').exec_price = px]_vars

\* a fill refused on a new sell limit order above the price, its sender logged on
C16_Witness ==
  /\ ev = Resp("execute", 1, 400)
  /\ Len(orders) >= 1
  /\ orders[1].status = "NEW"
  /\ orders[1].order_type = "LIMIT"
  /\ orders[1].side = "SELL"
  /\ orders[1].time_in_force = "DAY"
  /\ stocks["AAPL"] = Some(1)
  /\ RouteBySender(clients, orders[1].sender_comp_id) # None

\* ------------------------------------------------------------- SpecTif: time in force
\* the NewOrderSingle messages of SpecTif: market buy orders of 1..MaxQty, day,
\* immediate-or-cancel and fill-or-kill
TifOrderMsgs ==
  [sender : {Some("C1")}, cl_ord_id : {Some("O1")},
   symbol : {Some("AAPL")}, side : {Some("1")},
   order_qty : {Some(q) : q \in 1..MaxQty},
   ord_type : {Some("1")}, price : {None}, tif : {None, Some("3"), Some("4")}]

NextTif ==
  \/ Accept("s1")
  \/ HandleLogon("s1", "C1")
  \/ \E m \in TifOrderMsgs : HandleNewOrder("s1", m)
  \/ \E req \in FillRequests : ExecuteOrder(1, req)
  \/ CancelOrder(1)

SpecTif == Init /\ [][NextTif]_vars

\* ------------------------------------------------------------- fill quantities
\* C17: after any sequence of admin fills, each executing the requested
\* quantity capped at remaining_quantity (or remaining_quantity when none is
\* requested), every order has filled_quantity >= 0, remaining_quantity >= 0
\* and filled_quantity <= quantity.
C17_QuantitiesStayInRange ==
  \A i \in OrderIds :
    /\ orders[i].filled_quantity >= 0
    /\ orders[i].remaining_quantity >= 0
    /\ orders[i].filled_quantity <= orders[i].quantity

\* C18: every persisted execution has exec_quantity > 0.
C18_ExecutionQuantityIsPositive ==
  \A k \in 1..Len(executions) : executions[k].exec_quantity > 0

\* C19: an admin fill on a FOK order whose effective quantity is below the
\* order's remaining_quantity fails and changes no order, stores no execution
\* and sends no report; a fill of the whole remaining quantity succeeds and
\* leaves the order FILLED.
C19_FokAllOrNothing ==
  [][\A req \in FillRequests :
       (/\ ExecuteOrder(1, req)
        /\ Len(orders) >= 1
        /\ orders[1].time_in_force = "FOK"
        /\ orders[1].status \in ExecutableStatus
        /\ ~IsNone(FindStock(stocks, orders[1].symbol)))
         => LET order == orders[1]
                q == IF IsNone(req) THEN order.remaining_quantity
                     ELSE Min(Val(req), order.remaining_quantity)
            IN IF q < order.remaining_quantity
                 THEN /\ ev'.code = 400
                      /\ orders' = orders
                      /\ executions' = executions
                      /\ wire' = wire
                 ELSE /\ ev'.code = 200
                      /\ orders'[1].status = "FILLED"
                      /\ orders'[1].remaining_quantity = 0
                      /\ Len(executions') = Len(executions) + 1]_vars

\* a fill of 1 refused on a new FOK order of 2 whose sender is logged on
C19_Witness ==
  /\ ev = Resp("execute", 1, 400)
  /\ Len(orders) >= 1
  /\ orders[1].time_in_force = "FOK"
  /\ orders[1].status = "NEW"
  /\ orders[1].quantity = 2
  /\ executions = << >>
  /\ RouteBySender(clients, orders[1].sender_comp_id) # None

\* C20: an admin fill of a positive quantity on an IOC order that leaves
\* remaining_quantity > 0 commits the order as CANCELED with the filled amount
\* and writes exactly two ExecutionReports to the sender's session: the
\* partial fill, then the cancel.
C20_IocRemainderIsCanceled ==
  [][\A req \in FillRequests :
       (/\ ExecuteOrder(1, req)
        /\ Len(orders) >= 1
        /\ orders[1].time_in_force = "IOC"
        /\ ExecQuantity(orders[1], req) > 0
        /\ RouteBySender(clients, orders[1].sender_comp_id) = Some("s1")
        /\ ev'.code = 200
        /\ orders'[1].remaining_quantity > 0)
         => /\ orders'[1].status = "CANCELED"
            /\ orders'[1].filled_quantity
                 = orders[1].filled_quantity + ExecQuantity(orders[1], req)
            /\ Len(wire'["s1"]) = Len(wire["s1"]) + 2
            /\ wire'["s1"][Len(wire["s1"]) + 1].exec_type = "1"
            /\ wire'["s1"][Len(wire["s1"]) + 2].exec_type = "4"]_vars

\* ------------------------------------------------------------- symbols missing from the registry
\* C21: an admin fill on an order whose symbol is not in the registry fails and
\* leaves every order as it was, stores no execution and sends no report (the
\* order is not rejected); a reload changes no order and no execution.
C21_MissingSymbolRefusesFill ==
  [][/\ \A req \in LimitFillRequests :
          (/\ ExecuteOrder(1, req)
           /\ Len(orders) >= 1
           /\ IsNone(stocks[orders[1].symbol]))
            => /\ ev'.code # 200
               /\ orders' = orders
               /\ executions' = executions
               /\ wire' = wire
     /\ \A csv \in {None} \cup {Some(u) : u \in LimitUniverses} :
          ReloadStocks(csv) => (orders' = orders /\ executions' = executions)]_vars

\* a fill refused on a partially filled order whose symbol a reload has removed
C21_Witness ==
  /\ ev = Resp("execute", 1, 400)
  /\ Len(orders) >= 1
  /\ orders[1].status = "PARTIALLY_FILLED"
  /\ HasExecution(1)
  /\ IsNone(stocks[orders[1].symbol])
  /\ RouteBySender(clients, orders[1].sender_comp_id) # None

\* ------------------------------------------------------------- SpecAdmin: fill, cancel and reject
\* the reasons an admin gives for a reject: the default and another
RejectReasons == {"Rejected by admin", "halted"}

\* the NewOrderSingle messages of SpecAdmin: market day buy orders of 1..MaxQty
AdminOrderMsgs ==
  [sender : {Some("C1")}, cl_ord_id : {Some("O1")},
   symbol : {Some("AAPL")}, side : {Some("1")},
   order_qty : {Some(q) : q \in 1..MaxQty},
   ord_type : {Some("1")}, price : {None}, tif : {None}]

\* the fill requests of SpecAdmin: the whole remaining quantity, or 1
AdminFillRequests == {None, Some(1)}

NextAdmin ==
  \/ Accept("s1")
  \/ Disconnect("s1")
  \/ HandleLogon("s1", "C1")
  \/ \E m \in AdminOrderMsgs : HandleNewOrder("s1", m)
  \/ \E req \in AdminFillRequests : ExecuteOrder(1, req)
  \/ CancelOrder(1)
  \/ \E reason \in RejectReasons : RejectOrder(1, reason)

SpecAdmin == Init /\ [][NextAdmin]_vars

\* C22: an admin reject on an order in status NEW succeeds, sets the status
\* REJECTED and records the reason; on an order in any other status it fails
\* with 400 and changes no order, no execution and no socket.
C22_RejectOnlyFromNew ==
  [][\A reason \in RejectReasons :
       (RejectOrder(1, reason) /\ Len(orders) >= 1)
         => IF orders[1].status = "NEW"
              THEN /\ ev'.code = 200
                   /\ orders'[1] = [orders[1] EXCEPT !.status = "REJECTED",
                                                     !.reject_reason = Some(reason)]
                   /\ executions' = executions
              ELSE /\ ev'.code = 400
                   /\ orders' = orders
                   /\ executions' = executions
                   /\ wire' = wire]_vars

\* a reject refused on a partially filled order whose sender is logged on
C22_Witness ==
  /\ ev = Resp("reject", 1, 400)
  /\ Len(orders) >= 1
  /\ orders[1].status = "PARTIALLY_FILLED"
  /\ RouteBySender(clients, orders[1].sender_comp_id) # None

\* ------------------------------------------------------------- contents of the reports
\* C23: the ExecutionReport written for an admin cancel has ExecType canceled,
\* OrdStatus canceled, CumQty equal to the order's filled_quantity, LeavesQty
\* equal to the remaining_quantity the order had before the cancel, and AvgPx
\* equal to the average price of the order's fills (0 when nothing was filled).
C23_CancelReportContents ==
  [][(/\ CancelOrder(1)
      /\ ev'.code = 200
      /\ RouteBySender(clients, orders[1].sender_comp_id) = Some("s1"))
        => /\ Len(wire'["s1"]) = Len(wire["s1"]) + 1
           /\ LET r == Last(wire'["s1"])
              IN /\ r.msg_type = "8"
                 /\ r.exec_type = "4"
                 /\ r.ord_status = "4"
                 /\ r.cum_qty = orders[1].filled_quantity
                 /\ r.leaves_qty = orders[1].remaining_quantity
                 /\ r.avg_px = AvgPx(executions, 1, orders[1].filled_quantity)]_vars

\* the row, in table tbl, of the order a report is about
OrderOfReport(tbl, r) == CHOOSE i \in 1..Len(tbl) : tbl[i].cl_ord_id = r.cl_ord_id

\* C24: every ExecutionReport written to a socket has CumQty + LeavesQty =
\* OrderQty and CumQty equal to the order's committed filled_quantity when it is
\* written; a report of a fill has LastQty equal to the quantity executed and
\* ExecType fill with OrdStatus filled exactly when LeavesQty = 0, otherwise
\* ExecType partial fill (stated for executions of positive quantities).
C24_ReportQuantitiesMatchOrder ==
  [][\A s \in Sockets :
       (/\ Len(wire'[s]) = Len(wire[s]) + 1 /\ Last(wire'[s]).msg_type = "8"
        /\ \A k \in 1..Len(executions') : executions'[k].exec_quantity > 0)
         => LET r == Last(wire'[s])
                i == OrderOfReport(orders', r)
            IN /\ r.cum_qty + r.leaves_qty = r.order_qty
               /\ r.order_qty = orders'[i].quantity
               /\ r.cum_qty = orders'[i].filled_quantity
               /\ r.exec_type \in {"1", "2"}
                    => /\ r.exec_type = "2" <=> r.leaves_qty = 0
                       /\ r.ord_status = r.exec_type
                       /\ \A w \in Workers :
                            Report(w) => r.last_qty = Some(thr[w].q)]_vars

\* the fill and partial-fill reports for one order among the messages q
FillReports(q, cl_ord_id) ==
  SelectSeq(q, LAMBDA r : /\ r.msg_type = "8"
                          /\ r.exec_type \in {"1", "2"}
                          /\ r.cl_ord_id = cl_ord_id)

RECURSIVE SumLastQty(_)
SumLastQty(q) == IF q = << >> THEN 0 ELSE Val(Head(q).last_qty) + SumLastQty(Tail(q))

\* C25: once an order is filled and a report of each of its executions has
\* been written to its session, the LastQty of its fill and partial-fill
\* reports sum to its quantity, and the last of them has CumQty = quantity and
\* LeavesQty = 0 (stated for executions of positive quantities).
C25_FillReportsSumToQuantity ==
  \A i \in OrderIds :
    LET fr == FillReports(wire["s1"], orders[i].cl_ord_id)
    IN (/\ orders[i].status = "FILLED"
        /\ AllIdle
        /\ \A k \in 1..Len(executions) : executions[k].exec_quantity > 0
        /\ Len(fr) = Cardinality(ExecIdxOf(executions, i)))
          => /\ SumLastQty(fr) = orders[i].quantity
             /\ Last(fr).cum_qty = orders[i].quantity
             /\ Last(fr).leaves_qty = 0

\* ------------------------------------------------------------- SpecReports: two admin workers, sends statement by statement
\* the NewOrderSingle message of SpecReports: one market day order of MaxQty
ReportsOrderMsgs ==
  [sender : {Some("C1")}, cl_ord_id : {Some("O1")},
   symbol : {Some("AAPL")}, side : {Some("1")}, order_qty : {Some(MaxQty)},
   ord_type : {Some("1")}, price : {None}, tif : {None}]

NextReports ==
  \/ Accept("s1")
  \/ HandleLogon("s1", "C1")
  \/ \E m \in ReportsOrderMsgs : HandleNewOrder("s1", m)
  \/ \E w \in Workers : BeginExecute(w, 1, Some(1))
  \/ \E w \in Workers : Commit(w)
  \/ \E w \in Workers : ReportStamp(w)
  \/ \E w \in Workers : SockSend(w)
  \/ \E w \in Workers : LoadSeq(w)
  \/ \E w \in Workers : StoreSeq(w)

SpecReports == Init /\ [][NextReports]_vars

\* the ExecutionReports for one order among the messages q
ReportsFor(q, cl_ord_id) ==
  SelectSeq(q, LAMBDA r : r.msg_type = "8" /\ r.cl_ord_id = cl_ord_id)

\* C26: the ExecutionReports of one order are written to its session with
\* strictly increasing sequence numbers and in commit order: a report with a
\* larger CumQty never precedes one with a smaller CumQty.
C26_ReportsInLifecycleOrder ==
  \A s \in Sockets : \A c \in ClOrdIds :
    LET rs == ReportsFor(wire[s], c)
    IN \A i, j \in 1..Len(rs) :
         i < j => /\ rs[i].seq < rs[j].seq
                  /\ rs[i].cum_qty <= rs[j].cum_qty

\* ------------------------------------------------------------- SpecRoute: routing of admin reports
\* the NewOrderSingle messages of SpecRoute: tag 49 names either peer
RouteOrderMsgs ==
  [sender : {Some(p) : p \in Peers}, cl_ord_id : {Some("O1")},
   symbol : {Some("AAPL")}, side : {Some("1")}, order_qty : {Some(1)},
   ord_type : {Some("1")}, price : {None}, tif : {None}]

NextRoute ==
  \/ \E s \in Sockets : Accept(s)
  \/ \E s \in Sockets : Disconnect(s)
  \/ \E s \in Sockets, peer \in Peers : HandleLogon(s, peer)
  \/ \E s \in Sockets, m \in RouteOrderMsgs : HandleNewOrder(s, m)
  \/ ExecuteOrder(1, None)
  \/ CancelOrder(1)
  \/ RejectOrder(1, "Rejected by admin")

SpecRoute == Init /\ [][NextRoute]_vars

\* an admin handler has just answered 200
AdminDone == ev'.kind \in {"execute", "cancel", "reject"} /\ ev'.code = 200

\* the registered sockets whose peer is sender_comp_id
SessionsOf(cl, sender_comp_id) ==
  {cl[i].sock : i \in {j \in 1..Len(cl) : cl[j].target_comp_id = sender_comp_id}}

C28_SenderIsSessionPeer ==
  [][\A s \in Sockets, m \in RouteOrderMsgs :
       (HandleNewOrder(s, m) /\ InClients(clients, s) /\ Len(orders') = Len(orders) + 1)
         => Last(orders').sender_comp_id = ClientInfo(clients, s).target_comp_id]_vars

TestReqIds == {None, Some("T1")}

\* the Heartbeat built by _handle_test_request
HeartbeatReply(target_comp_id, seq, test_req_id) ==
  [msg_type |-> "0", sender |-> BrokerId, target |-> target_comp_id, seq |-> seq,
   test_req_id |-> test_req_id]

\* _handle_heartbeat: the body is pass, whatever tag 112 holds
HandleHeartbeat(s, test_req_id) ==
  /\ Connected(conn, s)
  /\ thr[s].pc = "idle"
  /\ conn' = [conn EXCEPT ![s] = "open"]
  /\ ev' = Rx(s, "0")
  /\ UNCHANGED << orders, executions, stocks, clients, msg_seq_num, wire, thr >>

\* _handle_test_request, run in one piece: self.clients[client_socket] raises on
\* a socket that is not registered and _process_message_obj logs the error
HandleTestRequest(s, test_req_id) ==
  /\ Connected(conn, s)
  /\ thr[s].pc = "idle"
  /\ msg_seq_num <= MaxSeq
  /\ conn' = [conn EXCEPT ![s] = "open"]
  /\ ev' = Rx(s, "1")
  /\ LET net == IF InClients(clients, s)
                  THEN SendMessage(Net, conn, s,
                         HeartbeatReply(ClientInfo(clients, s).target_comp_id,
                                        msg_seq_num, test_req_id))
                  ELSE Net
     IN wire' = net.wire /\ msg_seq_num' = net.seq
  /\ UNCHANGED << orders, executions, stocks, clients, thr >>

NextHb ==
  \/ \E s \in Sockets : Accept(s)
  \/ \E s \in Sockets : Disconnect(s)
  \/ \E s \in Sockets, peer \in Peers : HandleLogon(s, peer)
  \/ \E s \in Sockets, id \in TestReqIds : HandleHeartbeat(s, id)
  \/ \E s \in Sockets, id \in TestReqIds : HandleTestRequest(s, id)

SpecHb == Init /\ [][NextHb]_vars

\* C30, Logon part: a Logon from peer P registers P for the socket and is
\* answered on that socket with one Logon from the broker id to P.
LogonIsAnswered ==
  \A s \in Sockets, peer \in Peers :
    HandleLogon(s, peer)
      => /\ InClients(clients', s)
         /\ ClientInfo(clients', s).target_comp_id = peer
         /\ Len(wire'[s]) = Len(wire[s]) + 1
         /\ Last(wire'[s]).msg_type = "A"
         /\ Last(wire'[s]).sender = BrokerId
         /\ Last(wire'[s]).target = peer
         /\ \A t \in Sockets \ {s} : wire'[t] = wire[t]

\* C30, Heartbeat part: on a logged-on session a Heartbeat without TestReqID
\* produces nothing, one with a TestReqID is answered with a Heartbeat that
\* echoes it.
HeartbeatIsEchoed ==
  \A s \in Sockets, id \in TestReqIds :
    (HandleHeartbeat(s, id) /\ InClients(clients, s))
      => IF IsNone(id)
           THEN wire' = wire
           ELSE /\ Len(wire'[s]) = Len(wire[s]) + 1
                /\ Last(wire'[s]).msg_type = "0"
                /\ Last(wire'[s]).test_req_id = id

\* C30: a Logon from peer P records P as the session's peer and is answered on
\* the same connection with exactly one Logon from the broker id to P; after
\* Logon a Heartbeat without TestReqID produces no outbound message and a
\* Heartbeat carrying a TestReqID is answered with a Heartbeat echoing it.
C30_LogonAndHeartbeat == [][LogonIsAnswered /\ HeartbeatIsEchoed]_vars

\* ------------------------------------------------------------- SpecCxl: OrderCancelRequest
\* _handle_cancel_request: the body logs "Cancel request received" and returns
HandleCancelRequest(s, orig_cl_ord_id) ==
  /\ Connected(conn, s)
  /\ thr[s].pc = "idle"
  /\ conn' = [conn EXCEPT ![s] = "open"]
  /\ ev' = Rx(s, "F")
  /\ UNCHANGED << orders, executions, stocks, clients, msg_seq_num, wire, thr >>

\* the NewOrderSingle messages of SpecCxl: market day orders
CxlOrderMsgs ==
  [sender : {Some("C1")}, cl_ord_id : {Some("O1")},
   symbol : {Some("AAPL")}, side : {Some("1")},
   order_qty : {Some(q) : q \in 1..MaxQty},
   ord_type : {Some("1")}, price : {None}, tif : {None}]

NextCxl ==
  \/ Accept("s1")
  \/ Disconnect("s1")
  \/ HandleLogon("s1", "C1")
  \/ \E m \in CxlOrderMsgs : HandleNewOrder("s1", m)
  \/ \E req \in AdminFillRequests : ExecuteOrder(1, req)
  \/ CancelOrder(1)
  \/ \E c \in ClOrdIds : HandleCancelRequest("s1", c)

SpecCxl == Init /\ [][NextCxl]_vars

\* the rows of tbl whose cl_ord_id is c
RowsOf(tbl, c) == {i \in 1..Len(tbl) : tbl[i].cl_ord_id = c}

\* C31: an OrderCancelRequest on a logged-on session for an order that is NEW
\* or PARTIALLY_FILLED makes the order CANCELED and a report with ExecType
\* canceled and OrdStatus canceled is written to the session.
C31_CancelRequestCancels ==
  [][\A c \in ClOrdIds : \A i \in RowsOf(orders, c) :
       (/\ HandleCancelRequest("s1", c)
        /\ InClients(clients, "s1")
        /\ orders[i].status \in {"NEW", "PARTIALLY_FILLED"})
         => /\ orders'[i].status = "CANCELED"
            /\ Len(wire'["s1"]) = Len(wire["s1"]) + 1
            /\ Last(wire'["s1"]).msg_type = "8"
            /\ Last(wire'["s1"]).exec_type = "4"
            /\ Last(wire'["s1"]).ord_status = "4"]_vars

\* C32: an OrderCancelRequest on a logged-on session for an unknown order, or
\* for an order that is already terminal, leaves the store unchanged and an
\* OrderCancelReject is written to the session, with CxlRejReason 1 for an
\* unknown order and 0 for a terminal one.
C32_CancelRequestRejected ==
  [][\A c \in ClOrdIds :
       (/\ HandleCancelRequest("s1", c)
        /\ InClients(clients, "s1")
        /\ \A i \in RowsOf(orders, c) : orders[i].status \in Terminal)
         => /\ orders' = orders /\ executions' = executions
            /\ Len(wire'["s1"]) = Len(wire["s1"]) + 1
            /\ Last(wire'["s1"]).msg_type = "9"
            /\ Last(wire'["s1"]).cxl_rej_reason = IF RowsOf(orders, c) = {} THEN 1 ELSE 0]_vars

\* ------------------------------------------------------------- SpecLookup: the registry lookup, statement by statement
\* a worker inside send_execution_to_client: f are the arguments its handler
\* passed, n the size of self.clients when the iteration started, pos the next
\* entry of the iteration, sock the socket of the matching entry
Looking(t, pc, f, n, pos, sock) ==
  [pc |-> pc, kind |-> t.kind, order_id |-> t.order_id, loaded |-> t.loaded,
   f |-> f, n |-> n, pos |-> pos, sock |-> sock]

\* the handler's except clause: the error is answered with 500
Raised(w) ==
  /\ thr' = [thr EXCEPT ![w] = Idle]
  /\ ev' = Resp(thr[w].kind, thr[w].order_id, 500)

\* after the commit the handler reads the order again for the arguments and
\* send_execution_to_client starts iterating self.clients.items()
LookupBegin(w) ==
  /\ thr[w].pc = "report"
  /\ LET t == thr[w]
     IN thr' = [thr EXCEPT ![w] =
          Looking(t, "iter", ReportOf(t, orders[t.order_id], executions), Len(clients), 1, "")]
  /\ ev' = NoResp
  /\ UNCHANGED << orders, executions, stocks, conn, clients, msg_seq_num, wire >>

\* one step of the for loop: the dict iterator raises RuntimeError when the
\* dict's size is not the size it started with; at the end of the dict the loop
\* ends and the handler returns success; a matching entry is resolved
LookupStep(w) ==
  /\ thr[w].pc = "iter"
  /\ LET t == thr[w]
     IN IF Len(clients) # t.n
          THEN Raised(w)
          ELSE IF t.pos > Len(clients)
            THEN /\ thr' = [thr EXCEPT ![w] = Idle]
                 /\ ev' = Resp(t.kind, t.order_id, 200)
            ELSE /\ ev' = NoResp
                 /\ thr' = [thr EXCEPT ![w] =
                      IF clients[t.pos].target_comp_id = t.loaded.sender_comp_id
                        THEN Looking(t, "found", t.f, t.n, t.pos, clients[t.pos].sock)
                        ELSE Looking(t, "iter", t.f, t.n, t.pos + 1, "")]
  /\ UNCHANGED << orders, executions, stocks, conn, clients, msg_seq_num, wire >>

\* _send_execution_report on the resolved socket: self.clients[client_socket]
\* raises KeyError when the socket has been unregistered meanwhile; otherwise
\* the message is built with the current msg_seq_num
LookupReport(w) ==
  /\ thr[w].pc = "found"
  /\ LET t == thr[w]
     IN IF ~InClients(clients, t.sock)
          THEN Raised(w)
          ELSE /\ thr' = [thr EXCEPT ![w] =
                    Sending("send", t.kind, t.order_id, t.sock,
                            ExecutionReport(ClientInfo(clients, t.sock).target_comp_id,
                                            msg_seq_num, t.f), 0)]
               /\ ev' = NoResp
  /\ UNCHANGED << orders, executions, stocks, conn, clients, msg_seq_num, wire >>

\* the NewOrderSingle message of SpecLookup: one market day order of 1
LookupOrderMsgs ==
  [sender : {Some("C1")}, cl_ord_id : {Some("O1")},
   symbol : {Some("AAPL")}, side : {Some("1")}, order_qty : {Some(1)},
   ord_type : {Some("1")}, price : {None}, tif : {None}]

NextLookup ==
  \/ \E s \in Sockets : Accept(s)
  \/ \E s \in Sockets : Disconnect(s)
  \/ \E s \in Sockets, peer \in Peers : HandleLogon(s, peer)
  \/ \E m \in LookupOrderMsgs : HandleNewOrder("s1", m)
  \/ BeginExecute("w1", 1, None)
  \/ BeginCancel("w1", 1)
  \/ BeginReject("w1", 1, "Rejected by admin")
  \/ Commit("w1")
  \/ LookupBegin("w1")
  \/ LookupStep("w1")
  \/ LookupReport("w1")
  \/ SockSend("w1")
  \/ LoadSeq("w1")
  \/ StoreSeq("w1")

SpecLookup == Init /\ [][NextLookup]_vars

\* an admin handler has just answered with an error
AdminFailed == ev'.kind \in {"execute", "cancel", "reject"} /\ ev'.code >= 400

\* C33: when an admin fill, cancel or reject answers with an error, the order
\* store is as it was before the action: the answering step changes nothing,
\* and the order is still the row the handler loaded, with no execution added,
\* whatever logons and disconnects happened meanwhile.
C33_ErrorLeavesStoreIntact ==
  [][AdminFailed
       => /\ orders' = orders
          /\ executions' = executions
          /\ \A w \in Workers :
               (thr[w].pc # "idle" /\ thr'[w].pc = "idle")
                 => /\ orders[thr[w].order_id] = thr[w].loaded
                    /\ ExecQtySum(executions, thr[w].order_id)
                         = thr[w].loaded.filled_quantity]_vars

\* C37: accesses to the session registry are mutually exclusive: while an
\* admin worker is inside its lookup (iterating, or holding the socket it
\* resolved) no reader inserts or removes an entry, so the socket a lookup
\* resolved is still registered when the report is built.
C37_RegistryAccessIsExclusive ==
  [][/\ (\E w \in Workers : thr[w].pc \in {"iter", "found"}) => clients' = clients
     /\ \A w \in Workers : thr[w].pc = "found" => InClients(clients, thr[w].sock)]_vars

\* ------------------------------------------------------------- SpecReload: reload_stocks, statement by statement
EmptyUniverse == [sym \in Symbols |-> None]

\* mutant: the DELETE is committed at once, every session sees the empty table
DeleteAutocommitted(tbl) == EmptyUniverse

\* session.query(Stock).delete() runs inside the reload's own session, one of
\* get_session()'s: the rows other sessions read stay as they were until commit
DeleteInSession(tbl) == tbl

\* a worker inside reload_stocks: pre is the committed table when it started,
\* tx the table as its own session sees it, todo the symbols of the rows of
\* the file not yet read, bad the symbol of a row whose last_price is not a
\* number ("" when every row is well formed)
Reloading(pre, csv, tx, todo, bad) ==
  [pc |-> "reload", kind |-> "reload", order_id |-> 0, pre |-> pre, csv |-> csv,
   tx |-> tx, todo |-> todo, bad |-> bad]

\* reload_stocks up to the DELETE
ReloadBegin(w, csv, bad) ==
  /\ thr[w].pc = "idle"
  /\ bad \in {""} \cup (IF IsNone(csv) THEN {} ELSE {sym \in Symbols : ~IsNone(Val(csv)[sym])})
  /\ stocks' = DeleteInSession(stocks)
  /\ thr' = [thr EXCEPT ![w] =
       Reloading(stocks, csv, EmptyUniverse,
                 IF IsNone(csv) THEN {} ELSE {sym \in Symbols : ~IsNone(Val(csv)[sym])}, bad)]
  /\ ev' = NoResp
  /\ UNCHANGED << orders, executions, conn, clients, msg_seq_num, wire >>

\* open() and the loop over the rows: a file that cannot be opened, or a row
\* whose price float() refuses, raises into the except clause, which answers
\* 500 without a commit; a good row is added to the session
ReloadRow(w) ==
  /\ thr[w].pc = "reload"
  /\ LET t == thr[w]
     IN IF IsNone(t.csv)
          THEN /\ thr' = [thr EXCEPT ![w] = Idle]
               /\ ev' = Resp("reload", 0, 500)
          ELSE \E sym \in t.todo :
                 IF sym = t.bad
                   THEN /\ thr' = [thr EXCEPT ![w] = Idle]
                        /\ ev' = Resp("reload", 0, 500)
                   ELSE /\ thr' = [thr EXCEPT ![w] =
                             Reloading(t.pre, t.csv, [t.tx EXCEPT ![sym] = Val(t.csv)[sym]],
                                       t.todo \ {sym}, t.bad)]
                        /\ ev' = NoResp
  /\ UNCHANGED << orders, executions, stocks, conn, clients, msg_seq_num, wire >>

\* session.commit() after the last row: the session's table becomes the
\* committed one and the handler answers success
ReloadCommit(w) ==
  /\ thr[w].pc = "reload"
  /\ ~IsNone(thr[w].csv)
  /\ thr[w].todo = {}
  /\ stocks' = thr[w].tx
  /\ thr' = [thr EXCEPT ![w] = Idle]
  /\ ev' = Resp("reload", 0, 200)
  /\ UNCHANGED << orders, executions, conn, clients, msg_seq_num, wire >>

\* the files of SpecReload: unreadable, or each symbol absent or at price 1 or 3
ReloadFiles ==
  {None} \cup {Some(u) : u \in {v \in Universes : \A sym \in Symbols : v[sym] # Some(2)}}

\* the NewOrderSingle messages of SpecReload: one market day order of 1
ReloadOrderMsgs ==
  [sender : {Some("C1")}, cl_ord_id : {Some("O1")},
   symbol : {Some(sym) : sym \in Symbols}, side : {Some("1")}, order_qty : {Some(1)},
   ord_type : {Some("1")}, price : {None}, tif : {None}]

NextReload ==
  \/ Accept("s1")
  \/ HandleLogon("s1", "C1")
  \/ \E m \in ReloadOrderMsgs : HandleNewOrder("s1", m)
  \/ BeginExecute("w1", 1, None)
  \/ Commit("w1")
  \/ Report("w1")
  \/ \E csv \in ReloadFiles, bad \in Symbols \cup {""} : ReloadBegin("w2", csv, bad)
  \/ ReloadRow("w2")
  \/ ReloadCommit("w2")

SpecReload == Init /\ [][NextReload]_vars

BadFrame(sock) ==
  [kind |-> "frame", order_id |-> 0, code |-> 0, sock |-> sock, msg_type |-> "A"]

\* _handle_client on such a frame. The server checks neither field itself:
\* parser.get_message() either returns the message, which is dispatched on
\* its MsgType like any other (parsed), or raises, which is logged and ends
\* the inner loop only; both outcomes of the library are allowed. In neither
\* does the reader leave its while loop, so the socket stays open and
\* registered.
RxBadFrame(s, peer, parsed) ==
  /\ Connected(conn, s)
  /\ thr[s].pc = "idle"
  /\ msg_seq_num <= MaxSeq
  /\ ev' = BadFrame(s)
  /\ IF parsed
       THEN /\ conn' = [conn EXCEPT ![s] = "open"]
            /\ clients' = ClientsPut(clients, s, peer)
            /\ LET net == SendMessage(Net, conn, s, LogonReply(peer, msg_seq_num))
               IN wire' = net.wire /\ msg_seq_num' = net.seq
       ELSE UNCHANGED << conn, clients, wire, msg_seq_num >>
  /\ UNCHANGED << orders, executions, stocks, thr >>

NextFrame ==
  \/ \E s \in Sockets : Accept(s)
  \/ \E s \in Sockets : Disconnect(s)
  \/ \E s \in Sockets, peer \in Peers : HandleLogon(s, peer)
  \/ \E s \in Sockets, peer \in Peers, parsed \in BOOLEAN : RxBadFrame(s, peer, parsed)

SpecFrame == Init /\ [][NextFrame]_vars

\* C35: a frame whose BeginString is not FIX.4.2, or whose CheckSum does not
\* match, is not dispatched (it registers nothing and nothing is sent), and
\* its connection is closed and removed from the registry.
C35_BadFrameClosesSession ==
  [][\A s \in Sockets :
       (ev'.kind = "frame" /\ ev'.sock = s)
         => /\ conn'[s] = "closed"
            /\ ~InClients(clients', s)
            /\ wire' = wire]_vars

\* ------------------------------------------------------------- SpecStop: shutdown
\* self.server_socket, kept with the other sockets: "listening" while
\* self.running, "stopped" after stop()
Listener == "listener"

Running == conn[Listener] = "listening"

\* the state after start()
InitStop ==
  /\ orders = << >>
  /\ executions = << >>
  /\ stocks = InitialUniverse
  /\ conn = [s \in Sockets \cup {Listener} |-> IF s = Listener THEN "listening" ELSE "unused"]
  /\ clients = << >>
  /\ msg_seq_num = 1
  /\ wire = [s \in Sockets |-> << >>]
  /\ thr = [t \in Threads |-> Idle]
  /\ ev = NoResp

\* what stop() has just answered
Stopped == Resp("stop", 0, 200)

\* stop(): running is cleared, the listening socket is closed and so is every
\* socket that is a key of self.clients; the registry itself is left alone
Stop ==
  /\ Running
  /\ conn' = [s \in DOMAIN conn |->
                IF s = Listener THEN "stopped"
                ELSE IF InClients(clients, s) THEN "closed" ELSE conn[s]]
  /\ ev' = Stopped
  /\ UNCHANGED << orders, executions, stocks, clients, msg_seq_num, wire, thr >>

\* _accept_connections: accept() succeeds only on the listening socket
AcceptRunning(s) == Running /\ Accept(s)

\* a reader while the server runs
LogonRunning(s, peer) == Running /\ HandleLogon(s, peer)

DisconnectRunning(s) == Running /\ Disconnect(s)

\* a reader blocked in recv() on a socket stop() did not close: the next
\* message is dispatched as usual (here a Logon), then `while self.running`
\* ends the loop and the socket is closed and unregistered
LogonAfterStop(s, peer) ==
  /\ ~Running
  /\ Connected(conn, s)
  /\ thr[s].pc = "idle"
  /\ msg_seq_num <= MaxSeq
  /\ conn' = [conn EXCEPT ![s] = "closed"]
  /\ clients' = ClientsDel(ClientsPut(clients, s, peer), s)
  /\ LET net == SendMessage(Net, conn, s, LogonReply(peer, msg_seq_num))
     IN wire' = net.wire /\ msg_seq_num' = net.seq
  /\ ev' = Rx(s, "A")
  /\ UNCHANGED << orders, executions, stocks, thr >>

\* the peer of such a socket closes it: recv() returns no data
DisconnectAfterStop(s) == ~Running /\ Disconnect(s)

NextStop ==
  \/ \E s \in Sockets : AcceptRunning(s)
  \/ \E s \in Sockets : DisconnectRunning(s)
  \/ \E s \in Sockets, peer \in Peers : LogonRunning(s, peer)
  \/ Stop
  \/ \E s \in Sockets, peer \in Peers : LogonAfterStop(s, peer)
  \/ \E s \in Sockets : DisconnectAfterStop(s)

SpecStop == InitStop /\ [][NextStop]_vars

\* C36: once stop() has returned, every connection is closed, including the
\* accepted ones that have not logged on, no connection is accepted and no
\* inbound message is dispatched.
C36_StopClosesEveryConnection ==
  [][(ev' = Stopped \/ ~Running)
       => /\ \A s \in Sockets : ~Connected(conn', s)
          /\ ev'.kind # "rx"]_vars

\* ------------------------------------------------------------- frame of cancel and reject
\* C38: a step that makes an order CANCELED or REJECTED changes only its
\* status (and reject_reason, for a reject): filled_quantity,
\* remaining_quantity and every other column are as before, and no execution
\* is added or removed.
C38_CancelRejectChangeStatusOnly ==
  [][\A i \in OrderIds :
       (orders'[i].status \in {"CANCELED", "REJECTED"} /\ orders'[i].status # orders[i].status)
         => /\ orders'[i] =
                 [orders[i] EXCEPT !.status = orders'[i].status,
                                   !.reject_reason = IF orders'[i].status = "REJECTED"
                                                       THEN orders'[i].reject_reason ELSE @]
            /\ executions' = executions]_vars

\* an order canceled after a partial fill keeps its quantities and execution
C38_Witness ==
  /\ Len(orders) = 1
  /\ orders[1].status = "CANCELED"
  /\ orders[1].filled_quantity = 1
  /\ orders[1].remaining_quantity = 1
  /\ HasExecution(1)
  /\ ev = Resp("cancel", 1, 200)

\* ------------------------------------------------------------- fill-or-kill orders
\* C39: with admin actions run one at a time, a FOK order is never
\* PARTIALLY_FILLED (its status is NEW, FILLED, CANCELED or REJECTED) and it
\* has at most one execution.
C39_FokNeverPartiallyFilled ==
  \A i \in OrderIds :
    orders[i].time_in_force = "FOK"
      => /\ orders[i].status \in {"NEW", "FILLED", "CANCELED", "REJECTED"}
         /\ Cardinality(ExecIdxOf(executions, i)) <= 1

\* a FOK order of 2 filled by its single execution, after a smaller fill was
\* refused
C39_Witness ==
  /\ Len(orders) = 1
  /\ orders[1].time_in_force = "FOK"
  /\ orders[1].quantity = 2
  /\ orders[1].status = "FILLED"
  /\ Cardinality(ExecIdxOf(executions, 1)) = 1
  /\ ev = Resp("execute", 1, 200)

\* ------------------------------------------------------------- the outbound sequence counter
RECURSIVE Written(_, _)
\* the number of messages written to the sockets ss
Written(w, ss) ==
  IF ss = {} THEN 0
  ELSE LET s == CHOOSE x \in ss : TRUE
       IN Len(w[s]) + Written(w, ss \ {s})

\* C40: the outbound sequence counter has advanced by exactly one for each
\* message written to a socket, and by nothing else: whenever no thread is
\* between a write and its increment, msg_seq_num = 1 + the number of messages
\* written.
C40_CounterCountsWrittenMessages ==
  (\A t \in Threads : thr[t].pc \notin {"load", "store"})
    => msg_seq_num = 1 + Written(wire, Sockets)

====
